---- MODULE Spec2Model ----
(***************************************************************************)
(* archive-uninstall: removal of an archive's contents from a target       *)
(* directory (calennert/tools).  The model follows the variant with        *)
(* --remove-dirs: main walks the archive once, calling the tar/zip         *)
(* callback for every entry, and then sweeps the recorded directories.     *)
(* The earlier variant (archive-uninstall/archive-uninstall.go) has the     *)
(* same removeFromTargetDir and no sweep: it is this model with            *)
(* --remove-dirs off.  tarCallback and zipCallback differ only in how the  *)
(* entry's bytes are read, and are one Callback here.                      *)
(*                                                                         *)
(* Strings are sequences of byte values, so that Go's string order and     *)
(* filepath.Join's cleaning are computed and not assumed.  A path on disk  *)
(* is the sequence of the cleaned name's segments below the target         *)
(* directory.                                                              *)
(***************************************************************************)
EXTENDS Integers, Sequences, FiniteSets, TLC

\* ------------------------------------------------------------------ bounds

\* Longest archive (number of entries) the walk is given.
MaxEntries == 2

\* ----------------------------------------------------------------- strings

\* The byte '/' that separates path segments, and '.'.
Slash == 47
Dot == 46

\* Entry names of the archives considered, as byte sequences.
NameA == <<97>>
NameAB == <<97, 47, 98>>
NameB == <<98>>
NameADir == <<97, 47>>
NameABDir == <<97, 47, 98, 47>>
NameDotABDir == <<46, 47, 97, 47, 98, 47>>

FileNames == {NameA, NameAB, NameB}
DirNames == {NameADir, NameABDir, NameDotABDir}

\* Go's s < t on strings: bytewise lexicographic order.
RECURSIVE StrLess(_, _)
StrLess(s, t) ==
    IF t = <<>> THEN FALSE
    ELSE IF s = <<>> THEN TRUE
    ELSE IF Head(s) # Head(t) THEN Head(s) < Head(t)
    ELSE StrLess(Tail(s), Tail(t))

\* strings.Split(s, "/") as done inside filepath.Clean: the segments of s.
RECURSIVE Split(_, _, _)
Split(s, cur, acc) ==
    IF s = <<>> THEN Append(acc, cur)
    ELSE IF Head(s) = Slash THEN Split(Tail(s), <<>>, Append(acc, cur))
    ELSE Split(Tail(s), Append(cur, Head(s)), acc)

\* filepath.Clean on the segments: empty and "." segments are dropped and
\* ".." removes the segment before it (or stays, above the target).
RECURSIVE CleanSegs(_, _)
CleanSegs(segs, acc) ==
    IF segs = <<>> THEN acc
    ELSE LET s == Head(segs) IN
         IF s = <<>> \/ s = <<Dot>> THEN CleanSegs(Tail(segs), acc)
         ELSE IF s = <<Dot, Dot>> /\ acc # <<>> /\ acc[Len(acc)] # <<Dot, Dot>>
              THEN CleanSegs(Tail(segs), SubSeq(acc, 1, Len(acc) - 1))
         ELSE CleanSegs(Tail(segs), Append(acc, s))

\* filepath.Join(targetDir.Name(), name), relative to the target directory.
Join(name) == CleanSegs(Split(name, <<>>, <<>>), <<>>)

\* -------------------------------------------------------------- filesystem

Contents == {"hello", "goodbye"}

None == [kind |-> "none", data |-> ""]
Dir == [kind |-> "dir", data |-> ""]
File(d) == [kind |-> "file", data |-> d]

\* The paths of the target directory's tree that the model follows.
PathA == <<NameA>>
PathAB == <<NameA, NameB>>
PathB == <<NameB>>
Paths == {PathA, PathAB, PathB}

Nodes == {None, Dir} \cup {File(d) : d \in Contents}

IsPrefix(p, q) == Len(p) < Len(q) /\ SubSeq(q, 1, Len(p)) = p

\* A tree is well formed when whatever exists lies in an existing directory.
WellFormed(t) ==
    \A q \in Paths : t[q].kind # "none" =>
        \A p \in Paths : IsPrefix(p, q) => t[p].kind = "dir"

\* The target trees a run may start from.
Trees ==
    {t \in [Paths -> Nodes] : WellFormed(t) /\ t[PathB] \in {None, File("hello")}}

\* os.Open / os.Lstat of a path: what is there.
Lookup(t, p) == IF p \in Paths THEN t[p] ELSE None

\* What lies below p.
Descendants(t, p) == {q \in Paths : IsPrefix(p, q) /\ t[q].kind # "none"}

\* The tree after os.Remove(p) succeeded.
Unlink(t, p) == [t EXCEPT ![p] = None]

\* sha256.Sum256 of a file's bytes: collision free on the contents considered.
Sha256(d) == <<"sha256", d>>

\* ----------------------------------------------------------------- archive

DirEntry(n) == [name |-> n, isDir |-> TRUE, data |-> ""]
FileEntry(n, d) == [name |-> n, isDir |-> FALSE, data |-> d]

Entries ==
    {DirEntry(n) : n \in DirNames} \cup
    {FileEntry(n, d) : n \in FileNames, d \in Contents}

Archives == UNION {[1..n -> Entries] : n \in 0..MaxEntries}

\* ----------------------------------------------------------------- reasons

reasonVerificationFailure == " (file failed verification)"
reasonFileNotFound == " (file not found in target directory)"
reasonDirNotFound == " (directory does not found)"

\* ------------------------------------------------------------------- state

VARIABLES
    archive,      \* the archive's listing: what the walk yields, in order
    tree,         \* the target directory's tree
    tree0,        \* the tree when the current run started
    dryRun,       \* --dry-run
    verify,       \* --verify
    removeDirs,   \* --remove-dirs
    run,          \* 1 for the first invocation, 2 for the one after it
    pc,           \* where main is: "walk", "main", "sweep", "done", "fatal"
    i,            \* index of the entry the walk yields next
    directories,  \* the recorded directory names (var directories)
    j,            \* index of the directory the sweep visits next
    err,          \* the error the walk returned to main, if any
    out,          \* what removeFromTargetDir decided, one record per entry
    dirOut,       \* what the sweep decided, one record per directory
    prev,         \* the first invocation's outcome, once it has been rerun
    faulted       \* an I/O call failed for a reason outside the inputs

vars == <<archive, tree, tree0, dryRun, verify, removeDirs, run, pc, i,
          directories, j, err, out, dirOut, prev, faulted>>

\* I/O failures the operating system may answer with whatever the tree holds.
FileFaults == {"none", "open", "read", "remove"}
DirFaults == {"none", "remove"}

\* ------------------------------------------------------ the file decision

\* Faulty variant: the closure answers false when --verify is off.
VerifyFuncFalseWhenOff(node, data, fault) ==
    IF verify
    THEN IF node.kind = "dir" \/ fault = "read"
         THEN [verified |-> FALSE, err |-> TRUE]
         ELSE [verified |-> (Sha256(node.data) = Sha256(data)), err |-> FALSE]
    ELSE [verified |-> FALSE, err |-> FALSE]

\* The verifyFunc closure of tarCallback / zipCallback: [verified, err].
\* Reading a directory, or a failing read of either stream, is an error.
VerifyFunc(node, data, fault) ==
    IF verify
    THEN IF node.kind = "dir" \/ fault = "read"
         THEN [verified |-> FALSE, err |-> TRUE]
         ELSE [verified |-> (Sha256(node.data) = Sha256(data)), err |-> FALSE]
    ELSE [verified |-> TRUE, err |-> FALSE]

Outcome(t, e, ex, ver, att, rem, rsn) ==
    [tree |-> t, err |-> e, exists |-> ex, verified |-> ver,
     attempted |-> att, removed |-> rem, reason |-> rsn]

\* Faulty variant: the file is deleted without looking at --dry-run.
RemoveIgnoringDryRun(filename, data, t, fault) ==
    LET path == Join(filename)
        node == Lookup(t, path)
        opened == node.kind # "none" /\ fault # "open"
        v == VerifyFunc(node, data, fault)
        rmFails == fault = "remove" \/ Descendants(t, path) # {}
    IN  IF opened
        THEN IF v.err
             THEN Outcome(t, TRUE, TRUE, FALSE, FALSE, FALSE, "")
             ELSE IF v.verified
                  THEN IF rmFails
                       THEN Outcome(t, TRUE, TRUE, TRUE, TRUE, FALSE, "")
                       ELSE Outcome(Unlink(t, path), FALSE, TRUE, TRUE,
                                    TRUE, TRUE, "")
                  ELSE Outcome(t, FALSE, TRUE, FALSE, FALSE, FALSE,
                               reasonVerificationFailure)
        ELSE Outcome(t, FALSE, FALSE, FALSE, FALSE, FALSE, reasonFileNotFound)

\* Faulty variant: a target file that cannot be opened is returned as an error.
RemoveNotFoundIsError(filename, data, t, fault) ==
    LET path == Join(filename)
        node == Lookup(t, path)
        opened == node.kind # "none" /\ fault # "open"
        v == VerifyFunc(node, data, fault)
        rmFails == fault = "remove" \/ Descendants(t, path) # {}
    IN  IF opened
        THEN IF v.err
             THEN Outcome(t, TRUE, TRUE, FALSE, FALSE, FALSE, "")
             ELSE IF v.verified
                  THEN IF ~dryRun
                       THEN IF rmFails
                            THEN Outcome(t, TRUE, TRUE, TRUE, TRUE, FALSE, "")
                            ELSE Outcome(Unlink(t, path), FALSE, TRUE, TRUE,
                                         TRUE, TRUE, "")
                       ELSE Outcome(t, FALSE, TRUE, TRUE, FALSE, FALSE, "")
                  ELSE Outcome(t, FALSE, TRUE, FALSE, FALSE, FALSE,
                               reasonVerificationFailure)
        ELSE Outcome(t, TRUE, FALSE, FALSE, FALSE, FALSE, reasonFileNotFound)

\* removeFromTargetDir(filename, targetDir, verifyFunc) on tree t.
\* os.Remove fails on a directory that still has children.
RemoveFromTargetDir(filename, data, t, fault) ==
    LET path == Join(filename)
        node == Lookup(t, path)
        opened == node.kind # "none" /\ fault # "open"
        v == VerifyFunc(node, data, fault)
        rmFails == fault = "remove" \/ Descendants(t, path) # {}
    IN  IF opened
        THEN IF v.err
             THEN Outcome(t, TRUE, TRUE, FALSE, FALSE, FALSE, "")
             ELSE IF v.verified
                  THEN IF ~dryRun
                       THEN IF rmFails
                            THEN Outcome(t, TRUE, TRUE, TRUE, TRUE, FALSE, "")
                            ELSE Outcome(Unlink(t, path), FALSE, TRUE, TRUE,
                                         TRUE, TRUE, "")
                       ELSE Outcome(t, FALSE, TRUE, TRUE, FALSE, FALSE, "")
                  ELSE Outcome(t, FALSE, TRUE, FALSE, FALSE, FALSE,
                               reasonVerificationFailure)
        ELSE Outcome(t, FALSE, FALSE, FALSE, FALSE, FALSE, reasonFileNotFound)

\* addDirectory(dirName).
AddDirectory(dirs, dirName) == Append(dirs, dirName)

\* Faulty variant: the callback drops removeFromTargetDir's error.
CallbackDropsError(e, t, dirs, fault) ==
    IF e.isDir
    THEN [tree |-> t, directories |-> AddDirectory(dirs, e.name), err |-> FALSE,
          rec |-> [isDir |-> TRUE, path |-> Join(e.name), exists |-> FALSE,
                   verified |-> FALSE, attempted |-> FALSE, removed |-> FALSE,
                   reason |-> "", err |-> FALSE]]
    ELSE LET r == RemoveFromTargetDir(e.name, e.data, t, fault)
         IN  [tree |-> r.tree, directories |-> dirs, err |-> FALSE,
              rec |-> [isDir |-> FALSE, path |-> Join(e.name),
                       exists |-> r.exists, verified |-> r.verified,
                       attempted |-> r.attempted, removed |-> r.removed,
                       reason |-> r.reason, err |-> r.err]]

\* tarCallback / zipCallback on entry e: the tree, the recorded directories
\* and the decision after it.
Callback(e, t, dirs, fault) ==
    IF e.isDir
    THEN [tree |-> t, directories |-> AddDirectory(dirs, e.name), err |-> FALSE,
          rec |-> [isDir |-> TRUE, path |-> Join(e.name), exists |-> FALSE,
                   verified |-> FALSE, attempted |-> FALSE, removed |-> FALSE,
                   reason |-> "", err |-> FALSE]]
    ELSE LET r == RemoveFromTargetDir(e.name, e.data, t, fault)
         IN  [tree |-> r.tree, directories |-> dirs, err |-> r.err,
              rec |-> [isDir |-> FALSE, path |-> Join(e.name),
                       exists |-> r.exists, verified |-> r.verified,
                       attempted |-> r.attempted, removed |-> r.removed,
                       reason |-> r.reason, err |-> r.err]]

\* ---------------------------------------------------- the directory sweep

\* Faulty variant: the ascending order, p[i] < p[j].
LessAscending(x, y) == StrLess(x, y)

\* reverseStringSlice.Less(i, j): p[j] < p[i].
Less(x, y) == StrLess(y, x)

\* sort.Sort(reverseStringSlice(directories)).
RECURSIVE Insert(_, _)
Insert(x, s) ==
    IF s = <<>> THEN <<x>>
    ELSE IF Less(x, Head(s)) THEN <<x>> \o s
    ELSE <<Head(s)>> \o Insert(x, Tail(s))

RECURSIVE SortDirs(_)
SortDirs(s) == IF s = <<>> THEN <<>> ELSE Insert(Head(s), SortDirs(Tail(s)))

\* Faulty variant: the walk stops below its root and counts the root alone.
WalkCountRootOnly(t, p) == 1

\* The number of calls filepath.Walk makes to walkFunc from path p: one for
\* p itself (also when p does not exist) and one for each entry below it.
WalkCount(t, p) == 1 + Cardinality(Descendants(t, p))

DirOutcome(t, f, c, ex, em, rem, rsn) ==
    [tree |-> t, fatal |-> f, count |-> c, exists |-> ex, empty |-> em,
     removed |-> rem, reason |-> rsn]

\* Faulty variant: the sweep removes without looking at --dry-run.
SweepIgnoringDryRun(d, t, fault) ==
    LET path == Join(d)
        count == WalkCount(t, path)
    IN  IF count = 1
        THEN IF Lookup(t, path).kind = "none"
             THEN DirOutcome(t, FALSE, count, FALSE, TRUE, FALSE,
                             reasonDirNotFound)
             ELSE IF fault = "remove"
                  THEN DirOutcome(t, TRUE, count, TRUE, TRUE, FALSE, "")
                  ELSE DirOutcome(Unlink(t, path), FALSE, count, TRUE,
                                  TRUE, TRUE, "")
        ELSE DirOutcome(t, FALSE, count, TRUE, FALSE, FALSE, "")

\* One iteration of removeEmptyDirectories' loop, for recorded name d.
SweepOne(d, t, fault) ==
    LET path == Join(d)
        count == WalkCount(t, path)
    IN  IF count = 1
        THEN IF ~dryRun
             THEN IF Lookup(t, path).kind = "none"
                  THEN DirOutcome(t, FALSE, count, FALSE, TRUE, FALSE,
                                  reasonDirNotFound)
                  ELSE IF fault = "remove"
                       THEN DirOutcome(t, TRUE, count, TRUE, TRUE, FALSE, "")
                       ELSE DirOutcome(Unlink(t, path), FALSE, count, TRUE,
                                       TRUE, TRUE, "")
             ELSE DirOutcome(t, FALSE, count, TRUE, TRUE, FALSE, "")
        ELSE DirOutcome(t, FALSE, count, TRUE, FALSE, FALSE, "")

\* ------------------------------------------------------------------- runs

NoPrev == [out |-> <<>>, dirOut |-> <<>>, dryRun |-> FALSE, pc |-> "none"]

Init ==
    /\ archive \in Archives
    /\ tree \in Trees
    /\ tree0 = tree
    /\ dryRun \in BOOLEAN
    /\ verify \in BOOLEAN
    /\ removeDirs \in BOOLEAN
    /\ run = 1
    /\ pc = "walk"
    /\ i = 1
    /\ directories = <<>>
    /\ j = 1
    /\ err = FALSE
    /\ out = <<>>
    /\ dirOut = <<>>
    /\ prev = NoPrev
    /\ faulted = FALSE

\* archive.WalkTar and its siblings go on to the next entry only when the
\* callback returned no error; otherwise they return that error.
WalkContinues(cbErr) == ~cbErr

\* The walk yields entry i to the callback.
WalkEntry ==
    /\ pc = "walk"
    /\ i <= Len(archive)
    /\ \E fault \in (IF run = 1 THEN FileFaults ELSE {"none"}) :
        LET e == archive[i]
            r == Callback(e, tree, directories, fault)
        IN  /\ fault # "none" => r # Callback(e, tree, directories, "none")
            /\ tree' = r.tree
            /\ directories' = r.directories
            /\ out' = Append(out, r.rec)
            /\ faulted' = (faulted \/ fault # "none")
            /\ IF WalkContinues(r.err)
               THEN i' = i + 1 /\ UNCHANGED <<pc, err>>
               ELSE pc' = "main" /\ err' = TRUE /\ UNCHANGED i
    /\ UNCHANGED <<archive, tree0, dryRun, verify, removeDirs, run, j, dirOut, prev>>

\* The archive cannot be read further: the walk returns an error.
WalkReadError ==
    /\ pc = "walk"
    /\ run = 1
    /\ i <= Len(archive)
    /\ pc' = "main"
    /\ err' = TRUE
    /\ faulted' = TRUE
    /\ UNCHANGED <<archive, tree, tree0, dryRun, verify, removeDirs, run, i,
                   directories, j, out, dirOut, prev>>

\* The walk reached the end of the archive and returns nil.
WalkReturn ==
    /\ pc = "walk"
    /\ i > Len(archive)
    /\ pc' = "main"
    /\ err' = FALSE
    /\ UNCHANGED <<archive, tree, tree0, dryRun, verify, removeDirs, run, i,
                   directories, j, out, dirOut, prev, faulted>>

\* Faulty variant: main sweeps without looking at the walk's error.
MainIgnoringError ==
    /\ pc = "main"
    /\ IF removeDirs
       THEN pc' = "sweep" /\ directories' = SortDirs(directories) /\ j' = 1
       ELSE pc' = (IF err THEN "fatal" ELSE "done") /\ UNCHANGED <<directories, j>>
    /\ UNCHANGED <<archive, tree, tree0, dryRun, verify, removeDirs, run, i,
                   err, out, dirOut, prev, faulted>>

\* main after the walk: exit on its error, else sweep when --remove-dirs.
Main ==
    /\ pc = "main"
    /\ IF err
       THEN pc' = "fatal" /\ UNCHANGED <<directories, j>>
       ELSE IF removeDirs
            THEN pc' = "sweep" /\ directories' = SortDirs(directories) /\ j' = 1
            ELSE pc' = "done" /\ UNCHANGED <<directories, j>>
    /\ UNCHANGED <<archive, tree, tree0, dryRun, verify, removeDirs, run, i,
                   err, out, dirOut, prev, faulted>>

\* removeEmptyDirectories visits the next recorded directory.
SweepDir ==
    /\ pc = "sweep"
    /\ j <= Len(directories)
    /\ \E fault \in (IF run = 1 THEN DirFaults ELSE {"none"}) :
        LET d == directories[j]
            r == SweepOne(d, tree, fault)
        IN  /\ fault # "none" => r # SweepOne(d, tree, "none")
            /\ tree' = r.tree
            /\ faulted' = (faulted \/ fault # "none")
            /\ dirOut' = Append(dirOut,
                    [name |-> d, path |-> Join(d), count |-> r.count,
                     exists |-> r.exists, empty |-> r.empty,
                     removed |-> r.removed, reason |-> r.reason,
                     fatal |-> r.fatal])
            /\ IF r.fatal
               THEN pc' = "fatal" /\ UNCHANGED j
               ELSE j' = j + 1 /\ UNCHANGED pc
    /\ UNCHANGED <<archive, tree0, dryRun, verify, removeDirs, run, i,
                   directories, err, out, prev>>

\* removeEmptyDirectories returns and main ends.
SweepReturn ==
    /\ pc = "sweep"
    /\ j > Len(directories)
    /\ pc' = "done"
    /\ UNCHANGED <<archive, tree, tree0, dryRun, verify, removeDirs, run, i,
                   directories, j, err, out, dirOut, prev, faulted>>

\* The tool is invoked again on the same archive and target, same --verify
\* and --remove-dirs, without --dry-run.  The second invocation is followed
\* after a first one that met no I/O failure, and meets none itself.
Rerun ==
    /\ run = 1
    /\ ~faulted
    /\ pc \in {"done", "fatal"}
    /\ run' = 2
    /\ prev' = [out |-> out, dirOut |-> dirOut, dryRun |-> dryRun, pc |-> pc]
    /\ dryRun' = FALSE
    /\ tree0' = tree
    /\ pc' = "walk"
    /\ i' = 1
    /\ directories' = <<>>
    /\ j' = 1
    /\ err' = FALSE
    /\ out' = <<>>
    /\ dirOut' = <<>>
    /\ UNCHANGED <<archive, tree, verify, removeDirs, faulted>>

Next ==
    \/ WalkEntry
    \/ WalkReadError
    \/ WalkReturn
    \/ Main
    \/ SweepDir
    \/ SweepReturn
    \/ Rerun

Spec == Init /\ [][Next]_vars

\* ------------------------------------------------------------ properties

\* The step in which the callback handled entry i.
EntryStep == pc = "walk" /\ Len(out') = Len(out) + 1
\* The step in which the sweep handled recorded directory j.
DirStep == pc = "sweep" /\ Len(dirOut') = Len(dirOut) + 1
LastOut == out'[Len(out')]
LastDirOut == dirOut'[Len(dirOut')]
Ended == pc \in {"done", "fatal"}

\* C1: removeFromTargetDir deletes (and reports removed) only a path that
\* could be opened, that passed verification or was not verified at all,
\* and only when --dry-run is off; otherwise os.Remove is not even called,
\* and when it deletes it deletes that entry's path and nothing else.
C1_RemoveOnlyWhenAllowed ==
    [][(EntryStep /\ ~archive[i].isDir) =>
        LET e == archive[i]
            node == Lookup(tree, Join(e.name))
            allowed == /\ node.kind # "none"
                       /\ LastOut.exists
                       /\ ~verify \/ Sha256(node.data) = Sha256(e.data)
                       /\ ~dryRun
        IN  /\ (tree' # tree \/ LastOut.removed \/ LastOut.attempted) => allowed
            /\ LastOut.removed <=> tree' # tree
            /\ LastOut.removed => LastOut.attempted
            /\ tree' # tree => tree' = Unlink(tree, Join(e.name))]_vars

C1_Witness ==
    /\ verify
    /\ \E k \in 1..Len(out) : out[k].removed
    /\ \E k \in 1..Len(out) : out[k].reason = reasonVerificationFailure

\* C2: with --dry-run the tree never differs from the tree the run started
\* with, whatever the archive, --verify and --remove-dirs.
C2_DryRunLeavesTree == dryRun => tree = tree0

C2_Witness ==
    /\ dryRun /\ removeDirs /\ pc = "done"
    /\ \E k \in 1..Len(out) : out[k].exists /\ out[k].verified
    /\ \E k \in 1..Len(dirOut) : dirOut[k].empty

\* C4: a directory entry met during the walk is only appended to the
\* recorded list and changes nothing on disk; a directory is swept only
\* with --remove-dirs, after the walk returned without error, when every
\* entry of the archive has been decided, and no entry is decided after.
C4_SweepAfterWalk ==
    /\ []((pc = "sweep" \/ dirOut # <<>>) =>
            /\ removeDirs
            /\ ~err
            /\ i = Len(archive) + 1
            /\ Len(out) = Len(archive))
    /\ [][/\ (EntryStep /\ archive[i].isDir) =>
                /\ tree' = tree
                /\ directories' = Append(directories, archive[i].name)
                /\ dirOut' = dirOut
          /\ EntryStep => dirOut = <<>> /\ dirOut' = <<>>
          /\ DirStep => out' = out]_vars

C4_Witness ==
    /\ pc = "sweep"
    /\ j > 1
    /\ \E k \in 1..Len(out) : out[k].removed
    /\ \E k \in 1..Len(dirOut) : dirOut[k].removed

\* C5: the sweep removes a recorded path only when nothing exists below it
\* (the walk from it visits that one entry); a recorded directory with a
\* child at that moment stays and is reported exists, not empty, not removed.
C5_SweepOnlyEmpty ==
    [][DirStep =>
        LET p == Join(directories[j])
            below == {q \in Paths : IsPrefix(p, q) /\ tree[q].kind # "none"}
        IN  /\ tree' # tree =>
                /\ below = {}
                /\ LastDirOut.count = 1
                /\ LastDirOut.removed
                /\ tree' = Unlink(tree, p)
            /\ LastDirOut.removed => tree' # tree
            /\ below # {} =>
                /\ tree' = tree
                /\ LastDirOut.count = 1 + Cardinality(below)
                /\ LastDirOut.exists
                /\ ~LastDirOut.empty
                /\ ~LastDirOut.removed
                /\ LastDirOut.reason = ""
                /\ ~LastDirOut.fatal]_vars

C5_Witness ==
    /\ ~dryRun
    /\ \E k \in 1..Len(dirOut) : dirOut[k].removed
    /\ \E k \in 1..Len(dirOut) : dirOut[k].count > 1 /\ ~dirOut[k].empty

\* The entries of the archive that are files and resolve to path p.
FileEntriesAt(p) ==
    {k \in 1..Len(archive) : ~archive[k].isDir /\ Join(archive[k].name) = p}

\* C3: with --verify, a target file whose digest differs from the digest of
\* the archive's content for its path (of every file entry naming it) is
\* never removed during the run, the directory sweep included.
C3_MismatchNeverRemoved ==
    verify =>
        \A p \in Paths :
            (/\ tree0[p].kind = "file"
             /\ FileEntriesAt(p) # {}
             /\ \A k \in FileEntriesAt(p) :
                    Sha256(archive[k].data) # Sha256(tree0[p].data))
            => tree[p] = tree0[p]

\* Every entry is a file whose path holds a regular file when the run starts.
OnlyFilesWithCounterparts ==
    /\ archive # <<>>
    /\ \A k \in 1..Len(archive) :
        /\ ~archive[k].isDir
        /\ Lookup(tree0, Join(archive[k].name)).kind = "file"

\* C6: an archive of files that all have a counterpart in the target,
\* --verify off and --dry-run off: the run ends normally with every
\* counterpart gone, and without --remove-dirs every directory is in place.
C6_CounterpartsRemoved ==
    (Ended /\ ~faulted /\ ~verify /\ ~dryRun /\ OnlyFilesWithCounterparts) =>
        /\ pc = "done"
        /\ \A k \in 1..Len(archive) : tree[Join(archive[k].name)] = None
        /\ ~removeDirs => \A p \in Paths : tree0[p].kind = "dir" => tree[p] = Dir

C6_Witness ==
    /\ pc = "done" /\ ~faulted /\ ~verify /\ ~dryRun /\ ~removeDirs
    /\ OnlyFilesWithCounterparts
    /\ Len(archive) = 2
    /\ Join(archive[1].name) # Join(archive[2].name)
    /\ tree0[PathA] = Dir
    /\ tree[PathA] = Dir

\* The name a cleaned path is written as.
RECURSIVE JoinSegs(_)
JoinSegs(segs) ==
    IF segs = <<>> THEN <<>>
    ELSE IF Len(segs) = 1 THEN segs[1]
    ELSE segs[1] \o <<Slash>> \o JoinSegs(Tail(segs))

\* A name in clean form, with or without the trailing slash of a directory.
IsCleanName(n) ==
    LET c == JoinSegs(Join(n)) IN n = c \/ n = c \o <<Slash>>

\* The target holds exactly the archive's contents when the run starts.
Exact ==
    /\ \A k \in 1..Len(archive) :
        LET node == Lookup(tree0, Join(archive[k].name))
        IN  IF archive[k].isDir THEN node = Dir ELSE node = File(archive[k].data)
    /\ \A p \in Paths : tree0[p].kind # "none" =>
        \E k \in 1..Len(archive) : Join(archive[k].name) = p
    /\ \E p \in Paths : tree0[p].kind # "none"

\* C7 as stated: --verify --remove-dirs, --dry-run off, a target holding
\* exactly the archive's contents: the run ends normally and the target is
\* empty, whatever the names of the directory entries.
C7_ExactTargetEmptied ==
    (Ended /\ ~faulted /\ verify /\ removeDirs /\ ~dryRun /\ Exact) =>
        /\ pc = "done"
        /\ \A p \in Paths : tree[p] = None

\* C7 amended: the same, for archives whose directory entries are named in
\* clean form (no ".", ".." or empty segment), so that a directory's name is
\* a prefix of the names of the directories below it.
C7_ExactTargetEmptiedCleanNames ==
    (/\ Ended /\ ~faulted /\ verify /\ removeDirs /\ ~dryRun /\ Exact
     /\ \A k \in 1..Len(archive) : archive[k].isDir => IsCleanName(archive[k].name))
    =>  /\ pc = "done"
        /\ \A p \in Paths : tree[p] = None
        /\ \A k \in 1..Len(out) : ~out[k].isDir =>
             out[k].removed \/ \E m \in 1..(k - 1) : out[m].path = out[k].path
        /\ \A k \in 1..Len(dirOut) :
             dirOut[k].removed \/ \E m \in 1..(k - 1) : dirOut[m].path = dirOut[k].path

C7_Witness ==
    /\ pc = "done" /\ ~faulted /\ verify /\ removeDirs /\ ~dryRun /\ Exact
    /\ Len(archive) = 2
    /\ archive[1] = DirEntry(NameADir)
    /\ archive[2] = DirEntry(NameABDir)
    /\ \A p \in Paths : tree[p] = None

\* C8: the tool run twice in succession without --dry-run: every entry whose
\* file the first run removed is reported by the second as not existing,
\* reason not found; the second run removes no file, reports every such
\* entry, and does not end in a fatal error the first run did not end in.
C8_SecondRunNotFound ==
    (run = 2 /\ ~prev.dryRun /\ ~faulted) =>
        /\ \A k \in 1..Len(out) :
            /\ ~out[k].removed
            /\ prev.out[k].removed =>
                /\ ~out[k].exists
                /\ out[k].reason = reasonFileNotFound
                /\ ~out[k].err
        /\ \A p \in Paths : tree0[p].kind = "file" => tree[p] = tree0[p]
        /\ Ended => \A k \in 1..Len(prev.out) : prev.out[k].removed => k <= Len(out)
        /\ pc = "fatal" => prev.pc = "fatal"

C8_Witness ==
    /\ run = 2 /\ ~prev.dryRun /\ ~faulted /\ pc = "done"
    /\ Len(out) = 2
    /\ prev.out[1].removed /\ prev.out[2].removed
    /\ out[1].reason = reasonFileNotFound /\ out[2].reason = reasonFileNotFound

EligibleFiles ==
    {prev.out[k].path : k \in {m \in 1..Len(prev.out) :
        ~prev.out[m].isDir /\ prev.out[m].exists /\ prev.out[m].verified}}
RemovedFiles == {out[k].path : k \in {m \in 1..Len(out) : out[m].removed}}
EligibleDirs ==
    {prev.dirOut[k].path : k \in {m \in 1..Len(prev.dirOut) : prev.dirOut[m].empty}}
RemovedDirs == {dirOut[k].path : k \in {m \in 1..Len(dirOut) : dirOut[m].removed}}

\* C9: a --dry-run run and then the same run without --dry-run decide the
\* same removals, for files and with --remove-dirs for directories.  Stated
\* here for the runs most favourable to it: both end normally, no I/O call
\* fails, every directory entry names a directory that exists and every
\* file entry a regular file that exists.
C9_DryRunDecidesAsRealRun ==
    (/\ run = 2 /\ prev.dryRun /\ ~faulted /\ removeDirs
     /\ pc = "done" /\ prev.pc = "done"
     /\ \A k \in 1..Len(archive) :
            LET node == Lookup(tree0, Join(archive[k].name))
            IN  IF archive[k].isDir THEN node = Dir ELSE node.kind = "file")
    =>  /\ EligibleFiles = RemovedFiles
        /\ EligibleDirs = RemovedDirs

\* The file half of C9 alone, for a real run that ends normally.
C9_FilesDecidedAlike ==
    (run = 2 /\ prev.dryRun /\ ~faulted /\ pc = "done") =>
        EligibleFiles = RemovedFiles

\* C10: an error of the verify callback or of the file's deletion is
\* returned by removeFromTargetDir and ends the run: no later entry is
\* handled, no directory is swept, nothing removed comes back; a failing
\* directory removal ends the sweep.  A mismatch and a missing target file
\* are not errors, and the walk goes on to the next entry.
C10_FatalEndsRun ==
    /\ [](err => dirOut = <<>> /\ pc \in {"main", "fatal"})
    /\ [](pc = "fatal" =>
            \/ err
            \/ /\ dirOut # <<>>
               /\ dirOut[Len(dirOut)].fatal
               /\ j = Len(dirOut))
    /\ [][/\ (EntryStep /\ LastOut.err) =>
                err' /\ pc' = "main" /\ i' = i /\ tree' = tree
          /\ (EntryStep /\ ~archive[i].isDir) =>
                LET node == Lookup(tree, Join(archive[i].name))
                    goesOn == ~LastOut.err /\ ~err' /\ pc' = "walk" /\ i' = i + 1
                IN  /\ node.kind = "none" =>
                        goesOn /\ LastOut.reason = reasonFileNotFound
                    /\ LastOut.reason = reasonVerificationFailure =>
                        goesOn /\ tree' = tree
                    /\ (/\ verify /\ node.kind = "file" /\ LastOut.exists
                        /\ Sha256(node.data) # Sha256(archive[i].data)
                        /\ ~LastOut.err)
                        => LastOut.reason = reasonVerificationFailure
                    /\ (verify /\ node.kind = "dir" /\ LastOut.exists) => LastOut.err
                    /\ (/\ ~verify /\ ~dryRun /\ LastOut.exists
                        /\ \E q \in Paths : IsPrefix(Join(archive[i].name), q)
                                            /\ tree[q].kind # "none")
                        => LastOut.err
          /\ (pc = "main" /\ err) =>
                pc' = "fatal" /\ UNCHANGED <<tree, out, dirOut, i, j>>
          /\ (DirStep /\ LastDirOut.fatal) =>
                pc' = "fatal" /\ tree' = tree /\ j' = j
          /\ (pc = "fatal" /\ run' = run) => UNCHANGED <<tree, out, dirOut, i, j>>
          /\ \A p \in Paths : tree[p].kind = "none" => tree'[p].kind = "none"]_vars

C10_Witness ==
    /\ pc = "fatal" /\ err /\ removeDirs
    /\ Len(archive) = 2
    /\ Len(out) = 1
    /\ out[1].err
    /\ ~archive[2].isDir
    /\ Lookup(tree, Join(archive[2].name)).kind = "file"

====
